---------------------------- MODULE Spec2Model ----------------------------
(***************************************************************************)
(* x-cli watch mode (src/src/x_cli/watch.py) over the API client           *)
(* (src/src/x_cli/api.py): one watch session as a state machine (Spec,     *)
(* SpecBurst); the filter predicate of watch mode on its own (SpecFilters) *)
(* and the OAuth 1.0a header of src/src/x_cli/auth.py (SpecOAuth).         *)
(*                                                                         *)
(* Strings are sequences of one-character strings, so that lower(),        *)
(* the substring test `in` and int() are computed and not assumed.         *)
(* Tweet ids are the positive integers in posting order (the API's ids     *)
(* are decimal strings that grow with time); every watched account has     *)
(* its own timeline, numbered 1, 2, ... .                                  *)
(***************************************************************************)
EXTENDS Integers, Sequences, FiniteSets, TLC

(***************************************************************************)
(* Bounds of the model.                                                    *)
(***************************************************************************)
\* tweets an account may post in a session of the specification Spec
MaxPosted == 3
\* tweets the account may post in a session of the specification SpecBurst
BurstPosted == 11
\* full passes a session may complete
MaxPolls == 1
\* characters of a text passed to _matches_filters
MaxTextLen == 2
\* characters of a filter keyword
MaxKeywordLen == 1
\* keywords of a filter list
MaxFilters == 2

(***************************************************************************)
(* Python values.                                                          *)
(***************************************************************************)
\* Python's None (last_seen_id, since_id, max_tweets); ids and budgets are >= 0
None == -1

Max(a, b) == IF a >= b THEN a ELSE b

Min(a, b) == IF a <= b THEN a ELSE b

\* bool(x) of an optional int: None and 0 are falsy
TruthyInt(x) == x # None /\ x # 0

\* bool(x) of an optional id string: None is falsy, a non-empty id is truthy
TruthyId(x) == x # None

(***************************************************************************)
(* Text: str.lower() and the substring test.                               *)
(***************************************************************************)
LowerChar(c) ==
    CASE c = "A" -> "a"
      [] c = "B" -> "b"
      [] c = "C" -> "c"
      [] c = "D" -> "d"
      [] OTHER -> c

\* s.lower()
Lower(s) == [i \in 1..Len(s) |-> LowerChar(s[i])]

\* sub in s
Contains(s, sub) ==
    \E i \in 0..(Len(s) - Len(sub)) :
        \A j \in 1..Len(sub) : s[i + j] = sub[j]

\* the filter that compares the text and the keywords as they are written
_matches_filtersCaseSensitive(text, fs) ==
    IF fs = <<>> THEN TRUE
    ELSE \E k \in 1..Len(fs) : Contains(text, fs[k])

\* watch.py _matches_filters: no filters match everything, otherwise any
\* keyword, lowercased, that is a substring of the lowercased text
_matches_filters(text, fs) ==
    IF fs = <<>> THEN TRUE
    ELSE \E k \in 1..Len(fs) : Contains(Lower(text), Lower(fs[k]))

(***************************************************************************)
(* int(reset_ts): a decimal literal with an optional sign, else ValueError *)
(***************************************************************************)
Digits == <<"0", "1", "2", "3", "4", "5", "6", "7", "8", "9">>

IsDigit(c) == \E d \in 1..10 : Digits[d] = c

DigitVal(c) == (CHOOSE d \in 1..10 : Digits[d] = c) - 1

RECURSIVE NatVal(_)
NatVal(s) == IF s = <<>> THEN 0
             ELSE 10 * NatVal(SubSeq(s, 1, Len(s) - 1)) + DigitVal(s[Len(s)])

RECURSIVE Strip(_)
\* s.strip(): int() ignores the blanks around the literal
Strip(s) ==
    IF s # <<>> /\ s[1] = " " THEN Strip(Tail(s))
    ELSE IF s # <<>> /\ s[Len(s)] = " " THEN Strip(SubSeq(s, 1, Len(s) - 1))
    ELSE s

\* the literal after its optional sign
Unsigned(s) == IF s # <<>> /\ s[1] \in {"+", "-"} THEN Tail(s) ELSE s

\* digits, with single underscores between digits
IsDecimalLiteral(b) ==
    /\ b # <<>>
    /\ \A i \in 1..Len(b) :
         \/ IsDigit(b[i])
         \/ b[i] = "_" /\ i > 1 /\ i < Len(b) /\ IsDigit(b[i - 1]) /\ IsDigit(b[i + 1])

\* int(s) raises ValueError
IntFails(s) == ~IsDecimalLiteral(Unsigned(Strip(s)))

\* int(s) when it does not raise
IntOf(s) ==
    IF Strip(s)[1] = "-"
    THEN 0 - NatVal(SelectSeq(Unsigned(Strip(s)), IsDigit))
    ELSE NatVal(SelectSeq(Unsigned(Strip(s)), IsDigit))


(***************************************************************************)
(* Tweets.  The timeline of an account is its first n catalogue tweets;    *)
(* note_tweet is the long-form body, <<>> when the tweet has none.         *)
(***************************************************************************)
TweetOf(id) ==
    CASE id % 3 = 1 -> [id |-> id, text |-> <<"A", "b">>, note_text |-> <<>>]
      [] id % 3 = 2 -> [id |-> id, text |-> <<"x">>, note_text |-> <<"c", "D">>]
      [] OTHER      -> [id |-> id, text |-> <<>>, note_text |-> <<>>]

\* watch.py 135-138: the long-form body if present and non-empty, else the text
DisplayText(tweet) ==
    IF tweet.note_text # <<>> THEN tweet.note_text ELSE tweet.text

(***************************************************************************)
(* The API client (api.py).                                                *)
(***************************************************************************)
\* get_timeline's clamp of max_results
ClampMaxResults(max_results) == Max(5, Min(max_results, 100))

\* The page GET /users/:id/tweets answers for max_results and since_id: the
\* newest max_results tweets with an id above since_id, newest first.
\* get_timeline sends since_id only when it is truthy and reads one page.
ServerTimeline(n, since_id, max_results) ==
    LET floor == IF TruthyId(since_id) THEN since_id ELSE 0
        m == Min(ClampMaxResults(max_results), Max(0, n - floor))
    IN  [k \in 1..m |-> TweetOf(n - k + 1)]

Unknown == <<"u", "n", "k", "n", "o", "w", "n">>

\* values of the x-rate-limit-reset header of a 429 response
ResetHeaders ==
    { [present |-> FALSE, value |-> <<>>],
      [present |-> TRUE, value |-> <<"7">>],
      [present |-> TRUE, value |-> <<"1", "2">>],
      [present |-> TRUE, value |-> <<"+", "7">>],
      [present |-> TRUE, value |-> <<"1", ".", "5">>] }

NoHeader == [present |-> FALSE, value |-> <<>>]

\* what one HTTP request comes to: httpx raises (no response), or a response
\* with a status, a body that is JSON or not, and the reset header
HttpResults ==
    { [transport |-> TRUE, status_code |-> 0, json |-> FALSE, reset |-> NoHeader],
      [transport |-> FALSE, status_code |-> 200, json |-> TRUE, reset |-> NoHeader],
      [transport |-> FALSE, status_code |-> 200, json |-> FALSE, reset |-> NoHeader],
      [transport |-> FALSE, status_code |-> 500, json |-> TRUE, reset |-> NoHeader],
      [transport |-> FALSE, status_code |-> 502, json |-> FALSE, reset |-> NoHeader] }
    \cup { [transport |-> FALSE, status_code |-> 429, json |-> TRUE, reset |-> h] :
             h \in ResetHeaders }

\* resp.headers.get("x-rate-limit-reset", "unknown")
HeaderGet(h, default) == IF h.present THEN h.value ELSE default

\* api.py _handle: the exception raised for a response ("none": data is returned)
\* RateLimitError on 429, then resp.json() (JSONDecodeError, a ValueError), then
\* RuntimeError for a status that is no success
_handle(resp) ==
    IF resp.status_code = 429
    THEN [exc |-> "RateLimitError", reset_at |-> HeaderGet(resp.reset, Unknown)]
    ELSE IF ~resp.json
    THEN [exc |-> "JSONDecodeError", reset_at |-> <<>>]
    ELSE IF ~(resp.status_code >= 200 /\ resp.status_code < 300)
    THEN [exc |-> "RuntimeError", reset_at |-> <<>>]
    ELSE [exc |-> "none", reset_at |-> <<>>]

\* api.py get_timeline: the request (httpx raises on a transport failure), then
\* _handle; data is the "data" list of the body ([] when absent)
get_timeline(n, max_results, since_id, http) ==
    IF http.transport
    THEN [exc |-> "TransportError", reset_at |-> <<>>, data |-> <<>>]
    ELSE LET h == _handle(http)
         IN  [exc |-> h.exc, reset_at |-> h.reset_at,
              data |-> IF h.exc = "none"
                       THEN ServerTimeline(n, since_id, max_results)
                       ELSE <<>>]

\* Python's exception classes: RateLimitError subclasses RuntimeError (api.py 14);
\* httpx's TransportError and json's JSONDecodeError do not
IsRuntimeError(exc) == exc \in {"RateLimitError", "RuntimeError"}

(***************************************************************************)
(* The watch session (watch.py watch_loop).                                *)
(***************************************************************************)
VARIABLES
    targets,     \* list[WatchTarget]: username, user_id, last_seen_id
    stats,       \* WatchStats: tweets_seen, polls, per_user
    filters,     \* watch_loop's filters
    max_tweets,  \* watch_loop's max_tweets (None: no budget)
    interval,    \* watch_loop's interval, in seconds
    pc,          \* where watch_loop stands
    idx,         \* index in targets of the target of the running for loop
    batch,       \* tweets: the "data" list of the page being processed
    pos,         \* index in batch of the tweet the reversed() loop is at
    wait,        \* seconds of the time.sleep() under way, 0 when awake
    rl,          \* the rate limit being waited for: reset_at and the clock
    status,      \* "running", "returned" or "raised" (an exception left watch_loop)
    cause,       \* what ended the session: "budget" or the exception
    summaries,   \* calls of _print_summary
    posted,      \* per user_id, the tweets the account has posted so far
    limits,      \* the bounds of this session: posts per account, passes
    rendered,    \* per target, the ids passed to format_output, in order
    seed_mark,   \* per target, the tweets posted when it was seeded (None: not yet)
    rl_mark,     \* the last rate limit not yet retried: its target, pass and cursor
    seed_id,     \* per target, the id its seeding fetch returned as newest (None: none)
    iterations,  \* per target, the iterations of `for target in targets` that ended
    filter_call, \* a call of _matches_filters: its arguments and what it returned
    oauth        \* calls of generate_oauth_header: their arguments and results

vars == <<targets, stats, filters, max_tweets, interval, pc, idx, batch, pos,
          wait, rl, status, cause, summaries, posted, limits, rendered,
          seed_mark, rl_mark, seed_id, iterations, filter_call, oauth>>

\* the accounts a session may watch
Accounts == [A |-> "11", B |-> "22"]

\* the username lists of a session
TargetLists == {<<"A">>, <<"A", "B">>}

\* the filter lists of a session
FilterLists == {<<>>, <<<<"z", "z">>, <<"C", "d">>>>, <<<<"q">>>>}

\* the item budgets of a session
Budgets == {None, 0, 1, 2}

\* the polling intervals of a session
Intervals == {30}

\* values of int(time.time()) when a rate limit is handled
Clock == {9}

NoRl == [reset_at |-> <<>>, now |-> 0]

NoMark == [target |-> 0, pass |-> None, since |-> None]

\* WatchTarget(username, user_id): last_seen_id defaults to None
WatchTarget(username) ==
    [username |-> username, user_id |-> Accounts[username], last_seen_id |-> None]

\* WatchStats(): zero counters and an empty per_user dict
WatchStats == [tweets_seen |-> 0, polls |-> 0, per_user |-> <<>>]

\* d.get(k, default)
DictGet(d, k, default) == IF k \in DOMAIN d THEN d[k] ELSE default

\* d[k] = v
DictSet(d, k, v) == [x \in (DOMAIN d) \cup {k} |-> IF x = k THEN v ELSE d[x]]

InitWith(lists, budgets, fls, lim) ==
    /\ targets \in {[i \in 1..Len(us) |-> WatchTarget(us[i])] : us \in lists}
    /\ stats = WatchStats
    /\ filters \in fls
    /\ max_tweets \in budgets
    /\ interval \in Intervals
    /\ pc = "seed"
    /\ idx = 1
    /\ batch = <<>>
    /\ pos = 0
    /\ wait = 0
    /\ rl = NoRl
    /\ status = "running"
    /\ cause = "none"
    /\ summaries = 0
    /\ posted = [u \in {targets[i].user_id : i \in 1..Len(targets)} |-> 0]
    /\ limits = lim
    /\ rendered = [i \in 1..Len(targets) |-> <<>>]
    /\ seed_mark = [i \in 1..Len(targets) |-> None]
    /\ rl_mark = NoMark
    /\ seed_id = [i \in 1..Len(targets) |-> None]
    /\ iterations = [i \in 1..Len(targets) |-> 0]

\* no call of _matches_filters outside a watch session
NoFilterCall == [text |-> <<>>, filters |-> <<>>, done |-> FALSE, result |-> FALSE]

\* no call of generate_oauth_header in a watch session
NoOAuth == [method |-> <<>>, params |-> <<>>, calls |-> <<>>]

Init ==
    /\ InitWith(TargetLists, Budgets, FilterLists,
                [posts |-> MaxPosted, polls |-> MaxPolls])
    /\ filter_call = NoFilterCall
    /\ oauth = NoOAuth

Running == status = "running"

Target == targets[idx]

\* one cursor shared by all the targets
SetCursorOfAll(v) == [t \in DOMAIN targets |-> [targets[t] EXCEPT !.last_seen_id = v]]

\* target.last_seen_id = v, for the target of the running loop
SetCursor(v) == [targets EXCEPT ![idx].last_seen_id = v]

\* an exception leaves watch_loop: no handler of it encloses the statement
Raise(exc) ==
    /\ status' = "raised"
    /\ cause' = exc
    /\ UNCHANGED <<pc, idx, batch, pos, wait, rl, summaries>>

\* watch.py 70-77 _print_summary, then watch_loop returns
SummaryAndReturn(why) ==
    /\ summaries' = summaries + 1
    /\ status' = "returned"
    /\ cause' = why
    /\ UNCHANGED <<pc, idx, batch, pos, wait, rl>>

\* `break` where the loop has `continue`: the pass ends at this target
NextTargetBreak ==
    /\ pc' = "pass_end"
    /\ idx' = idx
    /\ batch' = <<>>
    /\ pos' = 0
    /\ wait' = 0
    /\ rl' = NoRl
    /\ iterations' = [iterations EXCEPT ![idx] = @ + 1]

\* `continue` of the for loop over targets, or its end: the next target's fetch,
\* or line 164 after the last target
NextTarget ==
    /\ IF idx < Len(targets)
       THEN pc' = "fetch" /\ idx' = idx + 1
       ELSE pc' = "pass_end" /\ idx' = idx
    /\ batch' = <<>>
    /\ pos' = 0
    /\ wait' = 0
    /\ rl' = NoRl
    /\ iterations' = [iterations EXCEPT ![idx] = @ + 1]

\* the rate limit of a target is retried when the target is fetched again
Retried == IF rl_mark.target = idx THEN NoMark ELSE rl_mark

(***************************************************************************)
(* The environment: a watched account posts a tweet.                       *)
(***************************************************************************)
Post(u) ==
    /\ Running
    /\ posted[u] < limits.posts
    /\ posted' = [posted EXCEPT ![u] = @ + 1]
    /\ UNCHANGED <<targets, stats, filters, max_tweets, interval, pc, idx, batch,
                   pos, wait, rl, status, cause, summaries, limits, rendered,
                   seed_mark, rl_mark,
                   seed_id, iterations,
                   filter_call, oauth>>

(***************************************************************************)
(* Initializing (watch.py 93-103), before the try of line 105.             *)
(***************************************************************************)
\* watch.py 59-67 _seed_last_seen: the cursor after the seeding fetch r
_seed_last_seen(target, r) ==
    IF r.exc = "none" /\ r.data # <<>> THEN r.data[1].id ELSE target.last_seen_id

\* _seed_last_seen's `except RuntimeError: pass`: what it does not catch
SeedPropagates(r) == r.exc # "none" /\ ~IsRuntimeError(r.exc)

\* one iteration of the for loop of lines 95-97
SeedTarget ==
    /\ Running
    /\ pc = "seed"
    /\ \E http \in HttpResults :
        LET r == get_timeline(posted[Target.user_id], 5, None, http)
        IN  /\ seed_mark' = [seed_mark EXCEPT ![idx] = posted[Target.user_id]]
            /\ seed_id' = [seed_id EXCEPT
                             ![idx] = IF r.exc = "none" /\ r.data # <<>>
                                      THEN r.data[1].id ELSE None]
            /\ IF SeedPropagates(r)
               THEN /\ Raise(r.exc)
                    /\ UNCHANGED targets
               ELSE /\ targets' = SetCursor(_seed_last_seen(Target, r))
                    /\ IF idx < Len(targets)
                       THEN pc' = "seed" /\ idx' = idx + 1
                       ELSE pc' = "fetch" /\ idx' = 1
                    /\ UNCHANGED <<batch, pos, wait, rl, status, cause, summaries>>
    /\ UNCHANGED <<stats, filters, max_tweets, interval, posted, limits, rendered,
                   rl_mark, iterations,
                   filter_call, oauth>>

(***************************************************************************)
(* Polling (watch.py 106-165).                                             *)
(***************************************************************************)
\* the fetch without since_id: every pass gets the newest page again
PollFetchNoSince(http) == get_timeline(posted[Target.user_id], 10, None, http)

\* watch.py 109-113: the fetch of the pass for the target of the loop
PollFetch(http) == get_timeline(posted[Target.user_id], 10, Target.last_seen_id, http)

\* the wait that falls back to the margin alone
RateLimitWaitShortFallback(reset_ts, now) ==
    IF IntFails(reset_ts) THEN 5 ELSE Max(0, IntOf(reset_ts) - now) + 5

\* the wait without the 5 seconds of margin
RateLimitWaitNoMargin(reset_ts, now) ==
    IF IntFails(reset_ts) THEN 60 ELSE Max(0, IntOf(reset_ts) - now)

\* watch.py 116-119: the seconds to wait for a rate limit
RateLimitWait(reset_ts, now) ==
    IF IntFails(reset_ts) THEN 60 ELSE Max(0, IntOf(reset_ts) - now) + 5

\* a failed fetch that forgets the cursor
CursorResetOnFailure(target) == None

\* the cursor of a target whose fetch raised RateLimitError or RuntimeError: both
\* handlers `continue` without an assignment
CursorOnFailure(target) == target.last_seen_id

\* watch.py 114-121: except RateLimitError, up to the sleep
PollRateLimited ==
    /\ Running
    /\ pc = "fetch"
    /\ \E http \in HttpResults, now \in Clock :
        LET r == PollFetch(http)
        IN  /\ r.exc = "RateLimitError"
            /\ rl' = [reset_at |-> r.reset_at, now |-> now]
            /\ wait' = RateLimitWait(r.reset_at, now)
    /\ rl_mark' = [target |-> idx, pass |-> stats.polls, since |-> Target.last_seen_id]
    /\ targets' = SetCursor(CursorOnFailure(Target))
    /\ pc' = "rl_sleep"
    /\ UNCHANGED <<stats, filters, max_tweets, interval, idx, batch, pos, status,
                   cause, summaries, posted, limits, rendered, seed_mark,
                   seed_id, iterations,
                   filter_call, oauth>>

\* watch.py 121-122: the sleep ends, `continue`
RateLimitWake ==
    /\ Running
    /\ pc = "rl_sleep"
    /\ NextTarget
    /\ UNCHANGED <<targets, stats, filters, max_tweets, interval, status, cause,
                   summaries, posted, limits, rendered, seed_mark, rl_mark,
                   seed_id,
                   filter_call, oauth>>

\* watch.py 123: except RuntimeError catches the exception of the fetch
PollFailed ==
    /\ Running
    /\ pc = "fetch"
    /\ \E http \in HttpResults :
        LET r == PollFetch(http)
        IN  /\ r.exc # "RateLimitError"
            /\ IsRuntimeError(r.exc)
    /\ pc' = "failed"
    /\ rl_mark' = Retried
    /\ UNCHANGED <<targets, stats, filters, max_tweets, interval, idx, batch, pos,
                   wait, rl, status, cause, summaries, posted, limits, rendered,
                   seed_mark,
                   seed_id, iterations,
                   filter_call, oauth>>

\* watch.py 124-125: the error is logged, `continue`
SkipFailed ==
    /\ Running
    /\ pc = "failed"
    /\ targets' = SetCursor(CursorOnFailure(Target))
    /\ NextTarget
    /\ UNCHANGED <<stats, filters, max_tweets, interval, status, cause, summaries,
                   posted, limits, rendered, seed_mark, rl_mark,
                   seed_id,
                   filter_call, oauth>>

\* an exception of get_timeline that neither handler of lines 114-125 matches;
\* the `except KeyboardInterrupt` of line 167 does not match it either
PollRaised ==
    /\ Running
    /\ pc = "fetch"
    /\ \E http \in HttpResults :
        LET r == PollFetch(http)
        IN  /\ r.exc # "none"
            /\ ~IsRuntimeError(r.exc)
            /\ Raise(r.exc)
    /\ rl_mark' = Retried
    /\ UNCHANGED <<targets, stats, filters, max_tweets, interval, posted, limits,
                   rendered, seed_mark,
                   seed_id, iterations,
                   filter_call, oauth>>

\* watch.py 127-134: a page; no tweets `continue`, else the reversed() loop starts
\* at the last element of tweets
PollPage ==
    /\ Running
    /\ pc = "fetch"
    /\ \E http \in HttpResults :
        LET r == PollFetch(http)
        IN  /\ r.exc = "none"
            /\ IF r.data = <<>>
               THEN NextTarget
               ELSE /\ batch' = r.data
                    /\ pos' = Len(r.data)
                    /\ pc' = "item"
                    /\ UNCHANGED <<idx, wait, rl, iterations>>
    /\ rl_mark' = Retried
    /\ UNCHANGED <<targets, stats, filters, max_tweets, interval, status, cause,
                   summaries, posted, limits, rendered, seed_mark,
                   seed_id,
                   filter_call, oauth>>

\* the reversed() loop goes on to the tweet before this one in tweets, or ends
NextItem ==
    /\ pos' = pos - 1
    /\ pc' = IF pos > 1 THEN "item" ELSE "cursor"
    /\ UNCHANGED <<idx, batch, wait, rl>>

\* the loop walking tweets in the returned order, newest first
TweetForward == batch[Len(batch) - pos + 1]

\* watch.py 134: the tweet of the running iteration of `for tweet in reversed(tweets)`
Tweet == batch[pos]

\* watch.py 135-141: a tweet the filters reject
ItemFiltered ==
    /\ Running
    /\ pc = "item"
    /\ ~_matches_filters(DisplayText(Tweet), filters)
    /\ NextItem
    /\ UNCHANGED <<targets, stats, filters, max_tweets, interval, status, cause,
                   summaries, posted, limits, rendered, seed_mark, rl_mark,
                   seed_id, iterations,
                   filter_call, oauth>>

\* watch.py 143-148: a matching tweet is passed to format_output, which returns
\* or raises (rich's MarkupError on a text such as "[/b]" in human mode)
ItemRendered ==
    /\ Running
    /\ pc = "item"
    /\ _matches_filters(DisplayText(Tweet), filters)
    /\ rendered' = [rendered EXCEPT ![idx] = Append(@, Tweet.id)]
    /\ \E raises \in BOOLEAN :
        IF raises
        THEN Raise("MarkupError")
        ELSE /\ pc' = "count"
             /\ UNCHANGED <<idx, batch, pos, wait, rl, status, cause, summaries>>
    /\ UNCHANGED <<targets, stats, filters, max_tweets, interval, posted, limits,
                   seed_mark, rl_mark,
                   seed_id, iterations,
                   filter_call, oauth>>

\* watch.py 153-154: the counters after a rendered tweet of the target
CountTweet(st, username) ==
    [st EXCEPT !.tweets_seen = @ + 1,
               !.per_user = DictSet(@, username, DictGet(@, username, 0) + 1)]

\* the budget test, off by one
BudgetReachedStrict(budget, st) == TruthyInt(budget) /\ st.tweets_seen > budget

\* watch.py 156: the budget test
BudgetReached(budget, st) == TruthyInt(budget) /\ st.tweets_seen >= budget

\* watch.py 150-159: notify (no state of the session), the counters, the budget
ItemCounted ==
    /\ Running
    /\ pc = "count"
    /\ stats' = CountTweet(stats, Target.username)
    /\ IF BudgetReached(max_tweets, stats')
       THEN SummaryAndReturn("budget")
       ELSE /\ NextItem
            /\ UNCHANGED <<status, cause, summaries>>
    /\ UNCHANGED <<targets, filters, max_tweets, interval, posted, limits, rendered,
                   seed_mark, rl_mark,
                   seed_id, iterations,
                   filter_call, oauth>>

\* the cursor set to the oldest tweet of the batch (tweets[-1])
NewCursorOldest(tweets) == tweets[Len(tweets)].id

\* watch.py 162: the cursor after the batch
NewCursor(tweets) == tweets[1].id

\* watch.py 161-162, then the next target
UpdateCursor ==
    /\ Running
    /\ pc = "cursor"
    /\ targets' = SetCursor(NewCursor(batch))
    /\ NextTarget
    /\ UNCHANGED <<stats, filters, max_tweets, interval, status, cause, summaries,
                   posted, limits, rendered, seed_mark, rl_mark,
                   seed_id,
                   filter_call, oauth>>

\* watch.py 164-165: the pass is counted and the inter-pass sleep starts
PassEnd ==
    /\ Running
    /\ pc = "pass_end"
    /\ stats.polls < limits.polls
    /\ stats' = [stats EXCEPT !.polls = @ + 1]
    /\ wait' = interval
    /\ pc' = "sleep"
    /\ UNCHANGED <<targets, filters, max_tweets, interval, idx, batch, pos, rl,
                   status, cause, summaries, posted, limits, rendered, seed_mark,
                   rl_mark,
                   seed_id, iterations,
                   filter_call, oauth>>

\* watch.py 165, 106-107: the sleep ends and the next pass starts at the first target
PassWake ==
    /\ Running
    /\ pc = "sleep"
    /\ wait' = 0
    /\ pc' = "fetch"
    /\ idx' = 1
    /\ UNCHANGED <<targets, stats, filters, max_tweets, interval, batch, pos, rl,
                   status, cause, summaries, posted, limits, rendered, seed_mark,
                   rl_mark,
                   seed_id, iterations,
                   filter_call, oauth>>

\* KeyboardInterrupt: inside the try of lines 105-166 the handler of line 167 prints
\* the summary; before it (Initializing) nothing catches it
KeyboardInterrupt ==
    /\ Running
    /\ IF pc = "seed"
       THEN Raise("KeyboardInterrupt")
       ELSE SummaryAndReturn("KeyboardInterrupt")
    /\ UNCHANGED <<targets, stats, filters, max_tweets, interval, posted, limits,
                   rendered, seed_mark, rl_mark,
                   seed_id, iterations,
                   filter_call, oauth>>

Next ==
    \/ \E u \in DOMAIN posted : Post(u)
    \/ SeedTarget
    \/ PollRateLimited
    \/ RateLimitWake
    \/ PollFailed
    \/ SkipFailed
    \/ PollRaised
    \/ PollPage
    \/ ItemFiltered
    \/ ItemRendered
    \/ ItemCounted
    \/ UpdateCursor
    \/ PassEnd
    \/ PassWake
    \/ KeyboardInterrupt

Spec == Init /\ [][Next]_vars

\* a session on one account that may post more tweets between two polls than
\* one page of the poll holds
InitBurst ==
    /\ InitWith({<<"A">>}, {None}, {<<>>, <<<<"q">>>>},
                [posts |-> BurstPosted, polls |-> MaxPolls])
    /\ filter_call = NoFilterCall
    /\ oauth = NoOAuth

SpecBurst == InitBurst /\ [][Next]_vars

(***************************************************************************)
(* _matches_filters on its own (watch.py 38-43): one call on arguments     *)
(* drawn from short texts and short lists of short keywords.               *)
(***************************************************************************)
\* the strings of at most n characters of an alphabet
Strings(alphabet, n) == UNION {[1..k -> alphabet] : k \in 0..n}

\* the lists of at most n elements of a set
Lists(elements, n) == UNION {[1..k -> elements] : k \in 0..n}

FilterAlphabet == {"a", "A", "b"}

Texts == Strings(FilterAlphabet, MaxTextLen)

Keywords == Strings(FilterAlphabet, MaxKeywordLen)

KeywordLists == Lists(Keywords, MaxFilters)

InitFilters ==
    /\ InitWith({<<"A">>}, {None}, {<<>>}, [posts |-> 0, polls |-> 0])
    /\ filter_call \in {[text |-> t, filters |-> fs, done |-> FALSE, result |-> FALSE] :
                           t \in Texts, fs \in KeywordLists}
    /\ oauth = NoOAuth

\* the call returns
MatchFilters ==
    /\ ~filter_call.done
    /\ filter_call' = [filter_call EXCEPT
                         !.done = TRUE,
                         !.result = _matches_filters(filter_call.text,
                                                     filter_call.filters)]
    /\ UNCHANGED <<targets, stats, filters, max_tweets, interval, pc, idx, batch,
                   pos, wait, rl, status, cause, summaries, posted, limits, rendered,
                   seed_mark, rl_mark, seed_id, iterations, oauth>>

NextFilters == MatchFilters

SpecFilters == InitFilters /\ [][NextFilters]_vars

(***************************************************************************)
(* OAuth 1.0a signing (auth.py generate_oauth_header).  Strings are        *)
(* sequences of ASCII characters; Python compares them by code point.      *)
(***************************************************************************)
\* the printable ASCII characters, from code 32 (space) to code 126 (~); code 96
\* is spelled out
Ascii ==
    <<" ", "!", "\"", "#", "$", "%", "&", "'", "(", ")", "*", "+",
       ",", "-", ".", "/", "0", "1", "2", "3", "4", "5", "6", "7",
       "8", "9", ":", ";", "<", "=", ">", "?", "@", "A", "B", "C",
       "D", "E", "F", "G", "H", "I", "J", "K", "L", "M", "N", "O",
       "P", "Q", "R", "S", "T", "U", "V", "W", "X", "Y", "Z", "[",
       "\\", "]", "^", "_", "grave", "a", "b", "c", "d", "e", "f", "g",
       "h", "i", "j", "k", "l", "m", "n", "o", "p", "q", "r", "s",
       "t", "u", "v", "w", "x", "y", "z", "{", "|", "}", "~">>

\* the code of every character
Codes == [c \in {Ascii[i] : i \in 1..Len(Ascii)} |->
            31 + (CHOOSE i \in 1..Len(Ascii) : Ascii[i] = c)]

\* ord(c)
Ord(c) == Codes[c]

\* chr(n)
Chr(n) == Ascii[n - 31]

\* a < b for two str, as sorted() compares them: by code point, a proper prefix first
RECURSIVE StrLess(_, _)
StrLess(a, b) ==
    IF b = <<>> THEN FALSE
    ELSE IF a = <<>> THEN TRUE
    ELSE IF a[1] # b[1] THEN Ord(a[1]) < Ord(b[1])
    ELSE StrLess(Tail(a), Tail(b))

IsUpperLetter(c) == Ord(c) >= 65 /\ Ord(c) <= 90

IsLowerLetter(c) == Ord(c) >= 97 /\ Ord(c) <= 122

IsDecimal(c) == Ord(c) >= 48 /\ Ord(c) <= 57

\* s.upper() and s.lower() on ASCII
StrUpper(s) == [i \in 1..Len(s) |-> IF IsLowerLetter(s[i]) THEN Chr(Ord(s[i]) - 32) ELSE s[i]]

StrLower(s) == [i \in 1..Len(s) |-> IF IsUpperLetter(s[i]) THEN Chr(Ord(s[i]) + 32) ELSE s[i]]

\* the characters urllib.parse.quote never escapes
Unreserved(c) ==
    IsUpperLetter(c) \/ IsLowerLetter(c) \/ IsDecimal(c) \/ c \in {"_", ".", "-", "~"}

HexDigits == <<"0", "1", "2", "3", "4", "5", "6", "7", "8", "9",
               "A", "B", "C", "D", "E", "F">>

\* "%XX" of a character: two upper-case hexadecimal digits of its code
Escape(c) == <<"%", HexDigits[(Ord(c) \div 16) + 1], HexDigits[(Ord(c) % 16) + 1]>>

\* a quote() that leaves the separators & and = as they are
QuoteSeparatorsSafe(c) == IF Unreserved(c) \/ c \in {"&", "="} THEN <<c>> ELSE Escape(c)

\* quote(c, safe="") of one character
Quote(c) == IF Unreserved(c) THEN <<c>> ELSE Escape(c)

RECURSIVE _percent_encode(_)
\* auth.py 53-54 _percent_encode: urllib.parse.quote(s, safe="")
_percent_encode(s) ==
    IF s = <<>> THEN <<>>
    ELSE IF Len(s) = 1 THEN Quote(s[1])
    ELSE LET half == Len(s) \div 2
         IN  _percent_encode(SubSeq(s, 1, half))
               \o _percent_encode(SubSeq(s, half + 1, Len(s)))

IsHex(c) ==
    IsDecimal(c) \/ (Ord(c) >= 65 /\ Ord(c) <= 70) \/ (Ord(c) >= 97 /\ Ord(c) <= 102)

HexVal(c) ==
    IF IsDecimal(c) THEN Ord(c) - 48
    ELSE IF Ord(c) >= 97 THEN Ord(c) - 87
    ELSE Ord(c) - 55

RECURSIVE Unquote(_)
\* urllib.parse.unquote on ASCII: %XX is the character of code XX, anything else
\* (a % that two hexadecimal digits do not follow, too) stays
Unquote(s) ==
    IF s = <<>> THEN <<>>
    ELSE IF /\ s[1] = "%"
            /\ Len(s) >= 3
            /\ IsHex(s[2])
            /\ IsHex(s[3])
            /\ 16 * HexVal(s[2]) + HexVal(s[3]) >= 32
            /\ 16 * HexVal(s[2]) + HexVal(s[3]) <= 126
    THEN <<Chr(16 * HexVal(s[2]) + HexVal(s[3]))>> \o Unquote(SubSeq(s, 4, Len(s)))
    ELSE <<s[1]>> \o Unquote(Tail(s))

\* s.replace("+", " ")
PlusToSpace(s) == [i \in 1..Len(s) |-> IF s[i] = "+" THEN " " ELSE s[i]]

\* s.find(c) + 1: the index of the first character of s that is in cs, 0 if none
Find(s, cs) ==
    IF \E i \in 1..Len(s) : s[i] \in cs
    THEN CHOOSE i \in 1..Len(s) : s[i] \in cs /\ \A j \in 1..(i - 1) : s[j] \notin cs
    ELSE 0

\* s.rfind(c) + 1
FindLast(s, cs) ==
    IF \E i \in 1..Len(s) : s[i] \in cs
    THEN CHOOSE i \in 1..Len(s) : s[i] \in cs /\ \A j \in (i + 1)..Len(s) : s[j] \notin cs
    ELSE 0

\* s[:i-1] and s[i+1:] around the character at index i (1-based)
Before(s, i) == SubSeq(s, 1, i - 1)

After(s, i) == SubSeq(s, i + 1, Len(s))

RECURSIVE Split(_, _)
\* s.split(sep) for a one-character sep
Split(s, sep) ==
    LET i == Find(s, {sep})
    IN  IF i = 0 THEN <<s>> ELSE <<Before(s, i)>> \o Split(After(s, i), sep)

RECURSIVE Join(_, _)
\* sep.join(parts)
Join(sep, parts) ==
    IF parts = <<>> THEN <<>>
    ELSE IF Len(parts) = 1 THEN parts[1]
    ELSE parts[1] \o sep \o Join(sep, Tail(parts))

\* the schemes of urllib.parse.uses_params that the model's urls may have
UsesParams == {<<>>, <<"h", "t", "t", "p">>, <<"h", "t", "t", "p", "s">>, <<"f", "t", "p">>}

\* the characters of a scheme after its first letter
IsSchemeChar(c) ==
    IsUpperLetter(c) \/ IsLowerLetter(c) \/ IsDecimal(c) \/ c \in {"+", "-", "."}

\* body with the local variable x holding e, for assign == [x \in {e} |-> body]:
\* a variable of the code that is assigned once and read many times
Local(assign) == assign[CHOOSE x \in DOMAIN assign : TRUE]

\* s split around index i into <<s[:i-1], s[i+1:]>>; <<s, "">> when i is 0
SplitAt(s, i) == IF i = 0 THEN <<s, <<>>>> ELSE <<Before(s, i), After(s, i)>>

\* <<s before the first character of cs, s after it>>
SplitFirst(s, cs) == Local([i \in {Find(s, cs)} |-> SplitAt(s, i)])

\* urlsplit's scheme step: <<scheme, rest>>, the scheme being what precedes the
\* first ":" (lowercased) when that is a letter followed by scheme characters
SplitScheme(url) ==
    Local([colon \in {Find(url, {":"})} |->
        IF /\ colon > 1
           /\ IsUpperLetter(url[1]) \/ IsLowerLetter(url[1])
           /\ \A i \in 1..(colon - 1) : IsSchemeChar(url[i])
        THEN <<StrLower(Before(url, colon)), After(url, colon)>>
        ELSE <<<<>>, url>>])

\* urlsplit's netloc step: <<netloc, rest>>, the netloc being what follows "//" up
\* to the first of / ? #
SplitNetloc(rest) ==
    IF Len(rest) >= 2 /\ rest[1] = "/" /\ rest[2] = "/"
    THEN Local([after_slashes \in {SubSeq(rest, 3, Len(rest))} |->
         Local([delim \in {Find(after_slashes, {"/", "?", "#"})} |->
             IF delim = 0 THEN <<after_slashes, <<>>>>
             ELSE <<Before(after_slashes, delim),
                    SubSeq(after_slashes, delim, Len(after_slashes))>>])])
    ELSE <<<<>>, rest>>

\* urlparse's _splitparams: <<path, params>>, the params after the first ; of the
\* last segment of the path
SplitParams(scheme, path) ==
    IF scheme \in UsesParams
    THEN Local([slash \in {FindLast(path, {"/"})} |->
         Local([segment \in {After(path, slash)} |->
         Local([semi_rel \in {Find(segment, {";"})} |->
             SplitAt(path, IF semi_rel = 0 THEN 0 ELSE slash + semi_rel)])])])
    ELSE <<path, <<>>>>

\* urllib.parse.urlparse(url): the scheme up to the first ":" (lowercased), the
\* netloc after "//" up to the first of / ? #, then the fragment after the first #,
\* the query after the first ?, and the params after the first ; of the last
\* segment of the path
urlparse(url) ==
    Local([scheme_rest \in {SplitScheme(url)} |->
    Local([netloc_rest \in {SplitNetloc(scheme_rest[2])} |->
    Local([rest_fragment \in {SplitFirst(netloc_rest[2], {"#"})} |->
    Local([rest_query \in {SplitFirst(rest_fragment[1], {"?"})} |->
    Local([path_params \in {SplitParams(scheme_rest[1], rest_query[1])} |->
        [scheme |-> scheme_rest[1],
         netloc |-> netloc_rest[1],
         path |-> path_params[1],
         params |-> path_params[2],
         query |-> rest_query[2],
         fragment |-> rest_fragment[2]]])])])])])

\* one name=value field of a query string: split at the first =, a field with no =
\* has the blank value; + is a space and %XX is unquoted
QueryField(field) ==
    LET eq == Find(field, {"="})
        name == IF eq = 0 THEN field ELSE Before(field, eq)
        value == IF eq = 0 THEN <<>> ELSE After(field, eq)
    IN  <<Unquote(PlusToSpace(name)), Unquote(PlusToSpace(value))>>

\* urllib.parse.parse_qsl(qs, keep_blank_values=True): the fields between the &,
\* empty fields skipped, in order
parse_qsl(qs) ==
    LET fields == SelectSeq(Split(qs, "&"), LAMBDA f : f # <<>>)
    IN  [i \in 1..Len(fields) |-> QueryField(fields[i])]

\* urllib.parse.parse_qs(qs, keep_blank_values=True): per name, the list of its
\* values in the order of the query string
parse_qs(qs) ==
    LET pairs == parse_qsl(qs)
        values(name) ==
            LET own == SelectSeq(pairs, LAMBDA nv : nv[1] = name)
            IN  [i \in 1..Len(own) |-> own[i][2]]
    IN  [name \in {pairs[i][1] : i \in 1..Len(pairs)} |-> values(name)]

\* d.update(e)
DictUpdate(d, e) ==
    [k \in (DOMAIN d) \cup (DOMAIN e) |-> IF k \in DOMAIN e THEN e[k] ELSE d[k]]

\* the names of the oauth parameters
K_oauth_consumer_key ==
    <<"o", "a", "u", "t", "h", "_", "c", "o", "n", "s", "u", "m", "e", "r",
      "_", "k", "e", "y">>

K_oauth_nonce ==
    <<"o", "a", "u", "t", "h", "_", "n", "o", "n", "c", "e">>

K_oauth_signature ==
    <<"o", "a", "u", "t", "h", "_", "s", "i", "g", "n", "a", "t", "u", "r",
      "e">>

K_oauth_signature_method ==
    <<"o", "a", "u", "t", "h", "_", "s", "i", "g", "n", "a", "t", "u", "r",
      "e", "_", "m", "e", "t", "h", "o", "d">>

K_oauth_timestamp ==
    <<"o", "a", "u", "t", "h", "_", "t", "i", "m", "e", "s", "t", "a", "m",
      "p">>

K_oauth_token ==
    <<"o", "a", "u", "t", "h", "_", "t", "o", "k", "e", "n">>

K_oauth_version ==
    <<"o", "a", "u", "t", "h", "_", "v", "e", "r", "s", "i", "o", "n">>

HmacSha1 == <<"H", "M", "A", "C", "-", "S", "H", "A", "1">>

Version10 == <<"1", ".", "0">>

\* Credentials: api_key, api_secret, access_token, access_token_secret
Creds ==
    [api_key |-> <<"k", "+">>, api_secret |-> <<"s">>,
     access_token |-> <<"t">>, access_token_secret |-> <<"x", "&">>]

\* secrets.token_hex(16) and str(int(time.time())) of the calls, held fixed
Nonce == <<"0", "a">>

Timestamp == <<"1", "7">>

\* base64 of the HMAC-SHA1 digest of msg under key.  The digest is not computed:
\* it is stood for by a text that determines key and msg (an injective HMAC)
Signature(key, msg) == <<"(">> \o key \o <<")">> \o msg

RECURSIVE SortedItems(_)
\* sorted(d.items()): the (key, value) pairs by key, as str compares
SortedItems(d) ==
    IF DOMAIN d = {} THEN <<>>
    ELSE LET k == CHOOSE x \in DOMAIN d :
                      \A y \in (DOMAIN d) \ {x} : StrLess(x, y)
         IN  <<<<k, d[k]>>>> \o SortedItems([x \in (DOMAIN d) \ {k} |-> d[x]])

\* the header built from every parameter that was signed
HeaderParamsSigned(oauth_params, all_params, signature) ==
    DictSet(all_params, K_oauth_signature, signature)

\* auth.py 103: the parameters of the header, oauth_params with the signature
HeaderParams(oauth_params, all_params, signature) ==
    DictSet(oauth_params, K_oauth_signature, signature)

\* auth.py 64-71: oauth_params
OAuthParams(creds) ==
    (K_oauth_consumer_key :> creds.api_key)
      @@ (K_oauth_nonce :> Nonce)
      @@ (K_oauth_signature_method :> HmacSha1)
      @@ (K_oauth_timestamp :> Timestamp)
      @@ (K_oauth_token :> creds.access_token)
      @@ (K_oauth_version :> Version10)

\* auth.py 82-83: the first value of every name of the query string
FirstValues(qs_params) == [k \in DOMAIN qs_params |-> qs_params[k][1]]

\* auth.py 87: param_string
ParamString(sorted_params) ==
    Join(<<"&">>, [i \in 1..Len(sorted_params) |->
                     _percent_encode(sorted_params[i][1]) \o <<"=">>
                       \o _percent_encode(sorted_params[i][2])])

\* auth.py 106-109: header_parts
HeaderParts(header_items) ==
    Join(<<",", " ">>, [i \in 1..Len(header_items) |->
                          _percent_encode(header_items[i][1]) \o <<"=", "\"">>
                            \o _percent_encode(header_items[i][2]) \o <<"\"">>])

\* auth.py 57-110 generate_oauth_header, with the values it computes on the way
generate_oauth_header(method, url, creds, params) ==
    Local([oauth_params \in {OAuthParams(creds)} |->
    Local([with_params \in {IF DOMAIN params # {}
                            THEN DictUpdate(oauth_params, params)
                            ELSE oauth_params} |->
    Local([parsed \in {urlparse(url)} |->
    Local([qs_params \in {parse_qs(parsed.query)} |->
    Local([all_params \in {IF parsed.query # <<>>
                           THEN DictUpdate(with_params, FirstValues(qs_params))
                           ELSE with_params} |->
    Local([sorted_params \in {SortedItems(all_params)} |->
    Local([param_string \in {ParamString(sorted_params)} |->
    Local([base_url \in {parsed.scheme \o <<":", "/", "/">> \o parsed.netloc
                           \o parsed.path} |->
    Local([base_string \in {StrUpper(method) \o <<"&">> \o _percent_encode(base_url)
                              \o <<"&">> \o _percent_encode(param_string)} |->
    Local([signing_key \in {_percent_encode(creds.api_secret) \o <<"&">>
                              \o _percent_encode(creds.access_token_secret)} |->
    Local([signature \in {Signature(signing_key, base_string)} |->
    Local([header_items \in
               {SortedItems(HeaderParams(oauth_params, all_params, signature))} |->
        [url |-> url,
         all_params |-> all_params,
         sorted_params |-> sorted_params,
         param_string |-> param_string,
         base_url |-> base_url,
         base_string |-> base_string,
         signature |-> signature,
         header |-> <<"O", "A", "u", "t", "h", " ">> \o HeaderParts(header_items)]
    ])])])])])])])])])])])])

\* the urls of the calls
Urls ==
    { <<"h", "t", "t", "p", "s", ":", "/", "/", "h", "/", "p">>,
      <<"h", "t", "t", "p", "s", ":", "/", "/", "h", "/", "q">>,
      <<"h", "t", "t", "p", "s", ":", "/", "/", "h", "/", "p", "?", "a", "=",
        "1">>,
      <<"h", "t", "t", "p", "s", ":", "/", "/", "h", "/", "p", "?", "a", "=",
        "1", "&", "a", "=", "2">>,
      <<"h", "t", "t", "p", "s", ":", "/", "/", "h", "/", "p", "?", "a", "=",
        "1", "&", "a", "=", "3">>,
      <<"h", "t", "t", "p", "s", ":", "/", "/", "h", "/", "p", "?", "a", "=",
        "1", "&", "b", "=", "2">>,
      <<"h", "t", "t", "p", "s", ":", "/", "/", "h", "/", "p", "?", "b", "=",
        "2", "&", "a", "=", "1">>,
      <<"h", "t", "t", "p", "s", ":", "/", "/", "h", "/", "p", "?", "a", "=",
        "1", "%", "2", "6", "b", "%", "3", "D", "2">>,
      <<"h", "t", "t", "p", "s", ":", "/", "/", "h", "/", "p", "?", "a", "%",
        "3", "A", "=", "1", "&", "a", "9", "=", "2">>,
      <<"h", "t", "t", "p", "s", ":", "/", "/", "h", "/", "p", "?", "o", "a",
        "u", "t", "h", "_", "t", "o", "k", "e", "n", "=", "z">> }

\* the methods of the calls
Methods == {<<"g", "e", "t">>, <<"P", "O", "S", "T">>}

\* the params of the calls: None or {} (both falsy), and dicts of extra parameters
ExtraParams ==
    { <<>>,
      (<<"a">> :> <<"1">>),
      (<<"a", "9">> :> <<"2">>) @@ (<<"a", ":">> :> <<"1">>),
      (K_oauth_token :> <<"z">>) }

InitOAuth ==
    /\ InitWith({<<"A">>}, {None}, {<<>>}, [posts |-> 0, polls |-> 0])
    /\ filter_call = NoFilterCall
    /\ oauth \in {[method |-> m, params |-> ps, calls |-> <<>>] :
                     m \in Methods, ps \in ExtraParams}

\* a call of generate_oauth_header(method, url, creds, params) returns
Sign(url) ==
    /\ oauth' = [oauth EXCEPT
                   !.calls = Append(@, generate_oauth_header(oauth.method, url, Creds,
                                                             oauth.params))]
    /\ UNCHANGED <<targets, stats, filters, max_tweets, interval, pc, idx, batch,
                   pos, wait, rl, status, cause, summaries, posted, limits, rendered,
                   seed_mark, rl_mark, seed_id, iterations, filter_call>>

\* sign(method, urlA, ...)
SignFirst == oauth.calls = <<>> /\ \E url \in Urls : Sign(url)

\* sign(method, urlB, ...), with the same credentials, method, params, nonce and
\* timestamp
SignSecond == Len(oauth.calls) = 1 /\ \E url \in Urls : Sign(url)

NextOAuth == SignFirst \/ SignSecond

SpecOAuth == InitOAuth /\ [][NextOAuth]_vars

(***************************************************************************)
(* Properties.                                                             *)
(***************************************************************************)
TargetIdx == 1..Len(targets)

Cursor(t) == targets[t].last_seen_id

NoDuplicates(seq) ==
    \A i, j \in 1..Len(seq) : i # j => seq[i] # seq[j]

Occurs(seq, x) == \E i \in 1..Len(seq) : seq[i] = x

RECURSIVE RenderedUpTo(_)
RenderedUpTo(n) == IF n = 0 THEN 0 ELSE Len(rendered[n]) + RenderedUpTo(n - 1)

\* items passed to format_output in the session, over all targets
TotalRendered == RenderedUpTo(Len(targets))

\* C1: within one session no item of a target is passed to format_output more than
\* once, whatever passes were rate limited, failed or empty
C1_NoItemRenderedTwice == \A t \in TargetIdx : NoDuplicates(rendered[t])

\* a target that has had an item rendered from an earlier batch is counting the
\* only item of a later batch
C1_Witness ==
    /\ pc = "count"
    /\ Len(batch) = 1
    /\ Len(rendered[idx]) >= 2
    /\ stats.polls >= 1

\* C2: when the loop over a non-empty batch ends without the budget being reached,
\* the target's last_seen_id becomes the id of the first element of the batch, which
\* is the newest of the batch, whatever the filters let through
C2_CursorIsNewestOfBatch ==
    [][(pc = "cursor" /\ pc' # "cursor" /\ status' = "running")
         => /\ targets'[idx].last_seen_id = batch[1].id
            /\ \A k \in 1..Len(batch) : batch[k].id <= targets'[idx].last_seen_id]_vars

\* a target seeded on an empty timeline whose cursor has passed two tweets, none of
\* which the filters let through
C2_Witness ==
    \E t \in TargetIdx :
        /\ seed_mark[t] = 0
        /\ filters # <<>>
        /\ rendered[t] = <<>>
        /\ Cursor(t) # None
        /\ Cursor(t) >= 2

\* C3: a cursor that holds an id never returns to None and never decreases
C3_CursorOnlyForward ==
    [][\A t \in TargetIdx :
          Cursor(t) # None
            => /\ targets'[t].last_seen_id # None
               /\ targets'[t].last_seen_id >= Cursor(t)]_vars

\* with no filters, a batch that held tweet 2 alone has moved the cursor from 1 to 2
C3_Witness ==
    \E t \in TargetIdx :
        /\ filters = <<>>
        /\ rendered[t] = <<2>>
        /\ Cursor(t) = 2

\* C4: with a budget of N >= 1 items (0 and None are falsy: no budget), at most N
\* items are ever rendered; counting the N-th prints the summary once and returns;
\* a session ended by the budget has rendered exactly N and does nothing more
C4_BudgetStop ==
    /\ [](max_tweets >= 1 =>
            /\ TotalRendered <= max_tweets
            /\ (stats.tweets_seen >= max_tweets
                  => status = "returned" /\ cause = "budget" /\ summaries = 1)
            /\ (cause = "budget"
                  => stats.tweets_seen = max_tweets /\ TotalRendered = max_tweets))
    /\ [][cause = "budget" => UNCHANGED vars]_vars

\* the budget of 2 is reached with an item of the batch and a target of the pass left
C4_Witness ==
    /\ cause = "budget"
    /\ max_tweets = 2
    /\ pos > 1
    /\ idx < Len(targets)
    /\ summaries = 1

\* C6: the rate limit handler sleeps max(0, reset_at - now) + 5 seconds for an
\* integer reset_at, leaves the cursor as it is, and goes on to the next target; the
\* target is not fetched again in the pass, and its next fetch, in the next pass,
\* uses the same since_id
C6_RateLimitBackoff ==
    /\ []((pc = "rl_sleep" /\ ~IntFails(rl.reset_at))
            => wait = Max(0, IntOf(rl.reset_at) - rl.now) + 5)
    /\ [](rl_mark.target # 0 =>
            /\ Cursor(rl_mark.target) = rl_mark.since
            /\ stats.polls \in {rl_mark.pass, rl_mark.pass + 1}
            /\ (stats.polls = rl_mark.pass
                  => \/ idx > rl_mark.target
                     \/ idx = rl_mark.target /\ pc \in {"rl_sleep", "pass_end"})
            /\ (stats.polls = rl_mark.pass + 1
                  => \/ pc = "sleep"
                     \/ idx < rl_mark.target
                     \/ idx = rl_mark.target /\ pc = "fetch"))
    /\ [][(pc = "fetch" /\ pc' = "rl_sleep") => targets' = targets /\ idx' = idx]_vars
    /\ [][(pc = "rl_sleep" /\ pc' # "rl_sleep" /\ status' = "running")
            => /\ targets' = targets
               /\ IF idx < Len(targets)
                  THEN pc' = "fetch" /\ idx' = idx + 1
                  ELSE pc' = "pass_end"]_vars

\* a target with a cursor is fetched again, one pass after its rate limit
C6_Witness ==
    /\ rl_mark.target # 0
    /\ rl_mark.since # None
    /\ stats.polls = rl_mark.pass + 1
    /\ pc = "fetch"
    /\ idx = rl_mark.target
    /\ idx < Len(targets)

\* the tweets of target t posted after it was seeded that the filters let through
NewMatching(t) ==
    {id \in 1..posted[targets[t].user_id] :
        /\ seed_mark[t] # None
        /\ id > seed_mark[t]
        /\ _matches_filters(DisplayText(TweetOf(id)), filters)}

\* C5: in a session without a budget, every matching tweet posted after its target
\* was seeded is rendered exactly once: never twice, and rendered by the time the
\* cursor has passed it (a tweet at or below the cursor is never fetched again)
C5_ExactlyOnceDelivery ==
    max_tweets = None =>
        \A t \in TargetIdx : \A id \in NewMatching(t) :
            /\ NoDuplicates(rendered[t])
            /\ (Cursor(t) # None /\ id <= Cursor(t)) => Occurs(rendered[t], id)

\* C7: a fetch of a pass that fails otherwise than by a rate limit leaves the session
\* running with the cursors and the stats as they were and no sleep, and the handler
\* goes on to the next target of the pass
C7_RequestFailureSkipsTarget ==
    [][/\ (/\ pc = "fetch"
           /\ \/ pc' = "failed"
              \/ status' = "raised" /\ cause' # "KeyboardInterrupt")
          => /\ status' = "running"
             /\ targets' = targets
             /\ stats' = stats
             /\ wait' = 0
       /\ (pc = "failed" /\ pc' # "failed" /\ status' = "running")
          => /\ targets' = targets
             /\ stats' = stats
             /\ wait' = 0
             /\ IF idx < Len(targets)
                THEN pc' = "fetch" /\ idx' = idx + 1
                ELSE pc' = "pass_end"]_vars

\* C8: whatever a fetch of the polling loop comes to, the session ends only by the
\* budget or by an interrupt
C8_FetchNeverFatal ==
    (status # "running" /\ pc = "fetch") => cause \in {"budget", "KeyboardInterrupt"}

\* C9: a session ended by the budget or by an interrupt, wherever the interrupt
\* arrived, has printed the summary exactly once
C9_SummaryOnEveryTermination ==
    (status # "running" /\ cause \in {"budget", "KeyboardInterrupt"}) => summaries = 1

\* C10: format_output raising on a matching item does not end the session
C10_RenderFailureNotFatal ==
    [][(pc = "item" /\ rendered' # rendered) => status' = "running"]_vars

\* the seeding step of the target of the loop
SeedStep == pc = "seed" /\ seed_mark[idx] = None /\ seed_mark'[idx] # None

\* C11: a target whose seeding fetch succeeded with at least one item has its cursor
\* set to the newest existing id by the seeding step, before the first poll, and no
\* item at or below that id is ever rendered for it; a seeding fetch that fails (it
\* returns no id) leaves the cursor at None and the session running
C11_SeedingPreventsReplay ==
    /\ [][(SeedStep /\ seed_id'[idx] # None)
           => /\ seed_id'[idx] = seed_mark'[idx]
              /\ targets'[idx].last_seen_id = seed_id'[idx]]_vars
    /\ [](\A t \in TargetIdx :
             seed_id[t] # None
               => /\ Cursor(t) # None
                  /\ Cursor(t) >= seed_id[t]
                  /\ \A k \in 1..Len(rendered[t]) : rendered[t][k] > seed_id[t])
    /\ [][(SeedStep /\ seed_id'[idx] = None)
           => /\ status' = "running"
              /\ targets'[idx].last_seen_id = None]_vars

\* the part of C11 on seeding fetches that return an item
C11_SeededItemsNotReplayed ==
    /\ [][(SeedStep /\ seed_id'[idx] # None)
           => /\ seed_id'[idx] = seed_mark'[idx]
              /\ targets'[idx].last_seen_id = seed_id'[idx]]_vars
    /\ [](\A t \in TargetIdx :
             seed_id[t] # None
               => /\ Cursor(t) # None
                  /\ Cursor(t) >= seed_id[t]
                  /\ \A k \in 1..Len(rendered[t]) : rendered[t][k] > seed_id[t])

\* the tweet of the batch with this id, if any
InBatch(id) == \E k \in 1..Len(batch) : batch[k].id = id

\* the ids rendered for the target of the loop that belong to its batch, in the
\* order they were rendered
RenderedOfBatch == SelectSeq(rendered[idx], InBatch)

\* the ids of the matching tweets at positions Len(tweets), ..., from of tweets
RECURSIVE OldestFirst(_, _)
OldestFirst(tweets, from) ==
    IF from > Len(tweets) THEN <<>>
    ELSE OldestFirst(tweets, from + 1)
           \o (IF _matches_filters(DisplayText(tweets[from]), filters)
               THEN <<tweets[from].id>> ELSE <<>>)

\* the position down to which the loop has rendered: the tweet at pos is rendered
\* once format_output was called for it
RenderedDownTo == IF pc = "count" \/ cause = "MarkupError" THEN pos ELSE pos + 1

\* C12: while a batch is processed, the items rendered from it are its matching
\* items from the last position of the returned list towards the first: the reverse
\* of the returned order, which for a page returned newest first is oldest first
C12_RenderedOldestFirst ==
    (pc \in {"item", "count", "cursor"} /\ batch # <<>>)
        => /\ RenderedOfBatch = OldestFirst(batch, RenderedDownTo)
           /\ \A i, j \in 1..Len(RenderedOfBatch) :
                 i < j => RenderedOfBatch[i] < RenderedOfBatch[j]

\* a target with no cursor got the batch of tweets 2 and 1 and, with no filters,
\* has rendered 1 and then 2; the cursor is about to become 2
C12_Witness ==
    /\ pc = "cursor"
    /\ Running
    /\ filters = <<>>
    /\ Target.last_seen_id = None
    /\ Len(batch) = 2
    /\ batch[1].id = 2
    /\ rendered[idx] = <<1, 2>>

\* sum(d.values())
RECURSIVE SumValues(_)
SumValues(d) ==
    IF DOMAIN d = {} THEN 0
    ELSE LET k == CHOOSE x \in DOMAIN d : TRUE
         IN  d[k] + SumValues([x \in (DOMAIN d) \ {k} |-> d[x]])

\* C13: whenever the summary has been printed (the budget was reached, or an
\* interrupt arrived at whatever point of the try), the stats it prints satisfy
\* tweets_seen == sum(per_user.values()), no counter is negative, and tweets_seen
\* is the number of items rendered in the session
C13_SummaryStatsConsistent ==
    summaries >= 1
        => /\ stats.tweets_seen = SumValues(stats.per_user)
           /\ stats.tweets_seen >= 0
           /\ stats.polls >= 0
           /\ \A u \in DOMAIN stats.per_user : stats.per_user[u] >= 0
           /\ stats.tweets_seen = TotalRendered

\* the part of C13 on the counters alone
C13_CountersConsistent ==
    /\ stats.tweets_seen = SumValues(stats.per_user)
    /\ stats.tweets_seen >= 0
    /\ stats.polls >= 0
    /\ \A u \in DOMAIN stats.per_user : stats.per_user[u] >= 0
    /\ (pc # "count" /\ cause # "MarkupError") => stats.tweets_seen = TotalRendered

\* C14: a step of a pass, whatever the fetch of its target came to, leaves every
\* other target as it was, and the username and the user_id of its own target too
C14_CursorsTargetLocal ==
    [][pc # "seed"
         => /\ Len(targets') = Len(targets)
            /\ \A t \in TargetIdx : t # idx => targets'[t] = targets[t]
            /\ targets'[idx].username = targets[idx].username
            /\ targets'[idx].user_id = targets[idx].user_id]_vars

\* the first target, with no cursor after seeding, has had a batch rendered and its
\* cursor set; the second still has the cursor it was seeded with and is fetched next
C14_Witness ==
    /\ Len(targets) = 2
    /\ pc = "fetch"
    /\ idx = 2
    /\ seed_id[1] = None
    /\ rendered[1] # <<>>
    /\ Cursor(1) # None
    /\ seed_id[2] # None
    /\ Cursor(2) = seed_id[2]

\* keyword occurs in text at offset i when case is ignored, letter by letter
OccursIgnoringCase(text, keyword, i) ==
    /\ i + Len(keyword) <= Len(text)
    /\ \A j \in 1..Len(keyword) : LowerChar(text[i + j]) = LowerChar(keyword[j])

\* C15: _matches_filters returns True for every text when filters is empty; for a
\* non-empty list it returns True exactly when at least one keyword occurs
\* somewhere in the text, case ignored
C15_MatchesAnyKeywordIgnoringCase ==
    filter_call.done
        => filter_call.result
             = IF Len(filter_call.filters) = 0 THEN TRUE
               ELSE \E k \in 1..Len(filter_call.filters) :
                      \E i \in 0..Len(filter_call.text) :
                         OccursIgnoringCase(filter_call.text, filter_call.filters[k], i)

\* the first keyword does not occur in the text and the second does, in another case
C15_Witness ==
    /\ filter_call.done
    /\ filter_call.result
    /\ filter_call.text = <<"b", "A">>
    /\ filter_call.filters = <<<<"A">>, <<"a">>>>
    /\ ~_matches_filtersCaseSensitive(filter_call.text, <<filter_call.filters[2]>>)

\* C16: on the empty text _matches_filters returns False for every non-empty list
\* of keywords, and True for the empty list
C16_EmptyTextMatchesNothing ==
    (filter_call.done /\ filter_call.text = <<>>)
        => (filter_call.result <=> filter_call.filters = <<>>)

\* the part of C16 on keywords that are not the empty string
C16_EmptyTextNoNonEmptyKeyword ==
    (/\ filter_call.done
     /\ filter_call.text = <<>>
     /\ \A k \in 1..Len(filter_call.filters) : filter_call.filters[k] # <<>>)
        => (filter_call.result <=> filter_call.filters = <<>>)

Calls == 1..Len(oauth.calls)

\* key="value", the value percent-encoded
HeaderPair(key, value) == key \o <<"=", "\"">> \o _percent_encode(value) \o <<"\"">>

\* the header of the claim for a signature: "OAuth " and the seven oauth parameters
\* by key, with the values of the credentials, the nonce and the timestamp
ExpectedHeader(signature) ==
    <<"O", "A", "u", "t", "h", " ">>
      \o Join(<<",", " ">>,
              << HeaderPair(K_oauth_consumer_key, Creds.api_key),
                 HeaderPair(K_oauth_nonce, Nonce),
                 HeaderPair(K_oauth_signature, signature),
                 HeaderPair(K_oauth_signature_method, HmacSha1),
                 HeaderPair(K_oauth_timestamp, Timestamp),
                 HeaderPair(K_oauth_token, Creds.access_token),
                 HeaderPair(K_oauth_version, Version10) >>)

\* C17: the header is "OAuth " followed by the comma-space-joined key="value"
\* pairs of exactly the seven oauth parameters, sorted by key, with the values of
\* the call itself; no extra param and no query param is in it, also when one has
\* the name of an oauth parameter
C17_HeaderIsOAuthParamsOnly ==
    \A c \in Calls : oauth.calls[c].header = ExpectedHeader(oauth.calls[c].signature)

\* an extra param named oauth_token was signed with its own value, on a url with a
\* query, and the header carries the oauth_token of the credentials
C17_Witness ==
    \E c \in Calls :
        /\ K_oauth_token \in DOMAIN oauth.params
        /\ oauth.calls[c].all_params[K_oauth_token] # Creds.access_token
        /\ urlparse(oauth.calls[c].url).query # <<>>
        /\ oauth.calls[c].header = ExpectedHeader(oauth.calls[c].signature)

\* the key=value fields of a parameter string
ParamFields(param_string) == Split(param_string, "&")

\* the encoded field of a key and a value
EncodedField(k, v) == _percent_encode(k) \o <<"=">> \o _percent_encode(v)

IsField(param_string, k, v) ==
    \E i \in 1..Len(ParamFields(param_string)) :
        ParamFields(param_string)[i] = EncodedField(k, v)

\* the url up to its query string
WithoutQuery(url) ==
    IF Find(url, {"?"}) = 0 THEN url ELSE Before(url, Find(url, {"?"}))

\* C18: every key/value pair of the query string of the url is a field of the
\* parameter string that is signed, and the base URL of the signature base string
\* is the url without its query
C18_QueryPairsSigned ==
    \A c \in Calls :
        LET call == oauth.calls[c]
            pairs == parse_qsl(urlparse(call.url).query)
        IN  /\ \A i \in 1..Len(pairs) :
                  IsField(call.param_string, pairs[i][1], pairs[i][2])
            /\ call.base_url = WithoutQuery(call.url)
            /\ call.base_string
                 = StrUpper(oauth.method) \o <<"&">> \o _percent_encode(call.base_url)
                     \o <<"&">> \o _percent_encode(call.param_string)

\* the part of C18 that holds: the first value of every query key is signed, and
\* the base URL has no query
C18_FirstQueryValuesSigned ==
    \A c \in Calls :
        LET call == oauth.calls[c]
            pairs == parse_qsl(urlparse(call.url).query)
        IN  /\ \A i \in 1..Len(pairs) :
                  (\A j \in 1..(i - 1) : pairs[j][1] # pairs[i][1])
                    => IsField(call.param_string, pairs[i][1], pairs[i][2])
            /\ call.base_url = WithoutQuery(call.url)
            /\ call.base_string
                 = StrUpper(oauth.method) \o <<"&">> \o _percent_encode(call.base_url)
                     \o <<"&">> \o _percent_encode(call.param_string)

\* C19 as claimed: with the credentials, the method, the extra params, the nonce
\* and the timestamp fixed, two different urls have different signature base
\* strings and different signatures
C19_DifferentUrlsDifferentSignatures ==
    (Len(oauth.calls) = 2 /\ oauth.calls[1].url # oauth.calls[2].url)
        => /\ oauth.calls[1].base_string # oauth.calls[2].base_string
           /\ oauth.calls[1].signature # oauth.calls[2].signature

\* C19: with the credentials, the method, the extra params, the nonce and the
\* timestamp fixed, two urls whose base URLs (scheme://host/path) differ, or whose
\* merged parameters (the oauth params, updated by the extra params, updated by the
\* first value of each query key) differ, have different signature base strings
\* and different signatures; two urls that agree on both have the same signature
C19_SignatureFollowsBaseUrlAndParams ==
    Len(oauth.calls) = 2
        => LET a == oauth.calls[1]
               b == oauth.calls[2]
           IN  IF a.base_url # b.base_url \/ a.all_params # b.all_params
               THEN a.base_string # b.base_string /\ a.signature # b.signature
               ELSE a.base_string = b.base_string /\ a.signature = b.signature

\* two urls with the same base URL whose queries differ only by a = "1" and b = "2"
\* against a = "1&b=2": the escapes keep the parameter strings apart, and the
\* signatures differ
C19_Witness ==
    /\ Len(oauth.calls) = 2
    /\ oauth.calls[1].base_url = oauth.calls[2].base_url
    /\ {<<"a">>, <<"b">>} \subseteq DOMAIN oauth.calls[1].all_params
    /\ <<"a">> \in DOMAIN oauth.calls[2].all_params
    /\ oauth.calls[1].all_params[<<"a">>] = <<"1">>
    /\ oauth.calls[1].all_params[<<"b">>] = <<"2">>
    /\ <<"b">> \notin DOMAIN oauth.calls[2].all_params
    /\ oauth.calls[2].all_params[<<"a">>] = <<"1", "&", "b", "=", "2">>
    /\ oauth.calls[1].signature # oauth.calls[2].signature

\* the (key, value) pairs of a dict, in any order
RECURSIVE ItemsOf(_)
ItemsOf(d) ==
    IF DOMAIN d = {} THEN <<>>
    ELSE LET k == CHOOSE x \in DOMAIN d : TRUE
         IN  <<<<k, d[k]>>>> \o ItemsOf([x \in (DOMAIN d) \ {k} |-> d[x]])

\* the oauth parameters that generate_oauth_header signs
SignedOAuthParams ==
    << <<K_oauth_consumer_key, Creds.api_key>>,
       <<K_oauth_nonce, Nonce>>,
       <<K_oauth_signature_method, HmacSha1>>,
       <<K_oauth_timestamp, Timestamp>>,
       <<K_oauth_token, Creds.access_token>>,
       <<K_oauth_version, Version10>> >>

\* all the parameters of a call: oauth + extra + query
AllParameters(url) ==
    SignedOAuthParams \o ItemsOf(oauth.params) \o parse_qsl(urlparse(url).query)

\* a <= b for two str
StrLessEq(a, b) == a = b \/ StrLess(a, b)

\* the encoded key and the encoded value of a field of a parameter string
FieldKey(field) == Before(field, Find(field, {"="}))

FieldValue(field) == After(field, Find(field, {"="}))

\* C20: the parameter string that is signed holds every parameter (oauth, extra and
\* query) as a key=value field, the fields joined by & and sorted by percent-encoded
\* key, then by percent-encoded value
C20_ParamStringSortedByEncodedKey ==
    \A c \in Calls :
        LET call == oauth.calls[c]
            fields == ParamFields(call.param_string)
            all == AllParameters(call.url)
        IN  /\ \A i \in 1..Len(all) : IsField(call.param_string, all[i][1], all[i][2])
            /\ \A i, j \in 1..Len(fields) :
                  i < j
                    => \/ StrLess(FieldKey(fields[i]), FieldKey(fields[j]))
                       \/ /\ FieldKey(fields[i]) = FieldKey(fields[j])
                          /\ StrLessEq(FieldValue(fields[i]), FieldValue(fields[j]))

\* the order of the fields of the parameter string alone
C20_FieldsInEncodedOrder ==
    \A c \in Calls :
        LET fields == ParamFields(oauth.calls[c].param_string)
        IN  \A i, j \in 1..Len(fields) :
              i < j
                => \/ StrLess(FieldKey(fields[i]), FieldKey(fields[j]))
                   \/ /\ FieldKey(fields[i]) = FieldKey(fields[j])
                      /\ StrLessEq(FieldValue(fields[i]), FieldValue(fields[j]))

\* C21: a rate limit whose reset_at int() rejects ("unknown" of a 429 without the
\* x-rate-limit-reset header, or a header that is no integer) sleeps exactly 60
\* seconds, leaves the cursor as it is, and goes on to the next target; only Ctrl+C
\* ends the session while it sleeps
C21_NonIntegerResetWaits60 ==
    /\ []((pc = "rl_sleep" /\ (IntFails(rl.reset_at) \/ rl.reset_at = Unknown))
            => /\ wait = 60
               /\ \/ status = "running"
                  \/ status = "returned" /\ cause = "KeyboardInterrupt")
    /\ [][(pc = "fetch" /\ pc' = "rl_sleep" /\ IntFails(rl'.reset_at))
            => /\ targets' = targets
               /\ idx' = idx
               /\ stats' = stats
               /\ status' = "running"]_vars
    /\ [][(pc = "rl_sleep" /\ IntFails(rl.reset_at) /\ pc' # "rl_sleep")
            => /\ targets' = targets
               /\ status' = "running"
               /\ IF idx < Len(targets)
                  THEN pc' = "fetch" /\ idx' = idx + 1
                  ELSE pc' = "pass_end" /\ idx' = idx]_vars

\* a target with a cursor, not the last of the pass, sleeps for a reset header
\* that is no integer
C21_Witness ==
    /\ pc = "rl_sleep"
    /\ status = "running"
    /\ IntFails(rl.reset_at)
    /\ rl.reset_at # Unknown
    /\ wait = 60
    /\ Cursor(idx) # None
    /\ idx < Len(targets)

\* the same for the 429 without the header
C21_WitnessUnknown ==
    /\ pc = "rl_sleep"
    /\ status = "running"
    /\ rl.reset_at = Unknown
    /\ wait = 60

\* the target's iteration of the pass under way has ended
DoneInPass(t) ==
    /\ pc \notin {"seed", "sleep"}
    /\ t < idx \/ (t = idx /\ pc = "pass_end")

RECURSIVE MinOf(_)
MinOf(seq) ==
    IF Len(seq) = 1 THEN seq[1] ELSE Min(seq[1], MinOf(Tail(seq)))

\* C22: stats.polls is the number of full passes over the targets: every target's
\* iteration has ended once per counted pass, and once more for the targets the
\* pass under way is done with; the count goes up by one at the end of a pass (line
\* 164, reached after the last target whatever its fetch came to), one sleep of
\* interval seconds follows and then the next pass starts at the first target; a
\* pass that the budget or Ctrl+C ends is not counted
C22_PollsCountsFullPasses ==
    /\ [](\A t \in TargetIdx :
            iterations[t] = stats.polls + (IF DoneInPass(t) THEN 1 ELSE 0))
    /\ [](pc # "pass_end" => stats.polls = MinOf(iterations))
    /\ [][stats'.polls # stats.polls
            => /\ pc = "pass_end"
               /\ idx = Len(targets)
               /\ stats'.polls = stats.polls + 1
               /\ pc' = "sleep"
               /\ wait' = interval
               /\ status' = "running"]_vars
    /\ [][(pc = "sleep" /\ pc' # "sleep")
            => /\ pc' = "fetch"
               /\ idx' = 1
               /\ wait' = 0
               /\ stats' = stats]_vars
    /\ [][status' # "running"
            => stats'.polls = stats.polls /\ iterations' = iterations]_vars

\* a pass over two targets in which one was rate limited has been counted and the
\* inter-pass sleep is under way
C22_Witness ==
    /\ Len(targets) = 2
    /\ stats.polls = 1
    /\ pc = "sleep"
    /\ wait = interval
    /\ rl_mark.target # 0
    /\ rl_mark.pass = 0
    /\ status = "running"

\* the budget ends a pass after a counted pass: the pass is not counted
C22_WitnessBudget ==
    /\ status = "returned"
    /\ cause = "budget"
    /\ stats.polls = 1
    /\ iterations[idx] = 1

=============================================================================
